---------------------------- MODULE Spec2Model ----------------------------
(***************************************************************************)
(* HinSAGE (src/stellar/layer/hinsage.py): the neighbourhood-tree          *)
(* bookkeeping of the constructor, the recursive layer composition of      *)
(* __call__, the lazily built MeanHinAggregator and _input_shapes.         *)
(*                                                                         *)
(* Tensors are modelled by their shapes (tuples of integers, batch axis    *)
(* first).  Python lists are 1-based sequences here; a tree position p     *)
(* (0-based, as stored in the neighbour index lists) is element p + 1.     *)
(* A tree entry is the pair <<node_type, neighbor_indices>>.               *)
(***************************************************************************)
EXTENDS Integers, Sequences, FiniteSets, TLC

VARIABLES
    pc,              \* "new" | "ready" | "failed" | "composing" | "done" | "call_failed"
    err,             \* exception raised by the last operation ("" if none)
    subtree_schema,  \* input_neighbor_tree / self.subtree_schema
    n_samples,       \* self.n_samples
    output_dims,     \* constructor argument output_dims
    bias,            \* self.bias
    derived,         \* the attributes the constructor has assigned so far
    n_layers,        \* self.n_layers
    neigh_trees,     \* self.neigh_trees
    depth,           \* local list depth of __init__
    dims,            \* self.dims
    aggs,            \* self._aggs : per layer, node type -> aggregator instance
    store,           \* the aggregator instances, by instance id
    neigh_reshape,   \* self._neigh_reshape : target shapes
    shapes,          \* the value _input_shapes() returned to default_model
    batch,           \* batch size of the running call
    x,               \* the tensor list compose_layers holds
    layer,           \* the layer argument of compose_layers
    rounds,          \* x_next evaluations of the running call
    used,            \* per call of an aggregator: <<layer, position, type, instance>>
    result,          \* what the last __call__ returned
    calls            \* number of __call__ invocations so far

vars == <<pc, err, subtree_schema, n_samples, output_dims, bias, derived,
          n_layers, neigh_trees, depth, dims, aggs, store, neigh_reshape,
          shapes, batch, x, layer, rounds, used, result, calls>>

-----------------------------------------------------------------------------
(* Bounds of the model *)

MaxPos == 5

MaxRel == 2

MaxLayers == 3

MaxBatch == 2

MaxCalls == 2

-----------------------------------------------------------------------------
(* Generic helpers *)

Last(s) == s[Len(s)]

Range(s) == {s[k] : k \in 1..Len(s)}

Reverse(s) == [k \in 1..Len(s) |-> s[Len(s) + 1 - k]]

RECURSIVE SumTo(_, _)
SumTo(c, k) == IF k = 0 THEN 0 ELSE c[k] + SumTo(c, k - 1)

RECURSIVE Prod(_)
Prod(s) == IF Len(s) = 0 THEN 1 ELSE s[1] * Prod(Tail(s))

RECURSIVE Flatten(_)
Flatten(ss) == IF Len(ss) = 0 THEN <<>> ELSE ss[1] \o Flatten(Tail(ss))

Max(S) == CHOOSE m \in S : \A k \in S : k <= m

-----------------------------------------------------------------------------
(* Trees: what a tree is, read off the tree itself *)

NumPos(tree) == Len(tree)

TypeAt(tree, p) == tree[p + 1][1]

NeighAt(tree, p) == tree[p + 1][2]

\* every neighbour index names a position of the tree
InRange(tree) ==
    \A p \in 0..(NumPos(tree) - 1) : \A v \in Range(NeighAt(tree, p)) :
        0 <= v /\ v < NumPos(tree)

\* how many neighbour slots name position q
RefCount(tree, q) ==
    SumTo([p \in 1..NumPos(tree) |->
              Cardinality({k \in 1..Len(tree[p][2]) : tree[p][2][k] = q})],
          NumPos(tree))

ParentOf(tree, q) ==
    CHOOSE p \in 0..(NumPos(tree) - 1) : q \in Range(NeighAt(tree, p))

\* hops from the root to p along the parents; -1 if the root is not reached
RECURSIVE HopsWithin(_, _, _)
HopsWithin(tree, p, fuel) ==
    IF p = 0 THEN 0
    ELSE IF fuel = 0 \/ RefCount(tree, p) = 0 THEN -1
    ELSE LET h == HopsWithin(tree, ParentOf(tree, p), fuel - 1)
         IN  IF h < 0 THEN -1 ELSE h + 1

Hops(tree, p) == HopsWithin(tree, p, NumPos(tree))

\* rooted at entry 0, every other position the neighbour of exactly one
\* entry and reachable from the root
RootedTree(tree) ==
    /\ InRange(tree)
    /\ RefCount(tree, 0) = 0
    /\ \A q \in 1..(NumPos(tree) - 1) : RefCount(tree, q) = 1 /\ Hops(tree, q) > 0

TreeDepth(tree) == Max({Hops(tree, p) : p \in 0..(NumPos(tree) - 1)})

\* parent precedes children
ParentFirst(tree) ==
    /\ InRange(tree)
    /\ \A p \in 0..(NumPos(tree) - 1) : \A v \in Range(NeighAt(tree, p)) : v > p

\* every neighbour list ascending
Ascending(tree) ==
    \A p \in 0..(NumPos(tree) - 1) :
        \A j, k \in 1..Len(NeighAt(tree, p)) : j < k =>
            NeighAt(tree, p)[j] < NeighAt(tree, p)[k]

\* serialised level by level: the neighbour lists, read in entry order, name
\* the positions 1, 2, ..., N - 1
LevelOrder(tree) ==
    Flatten([p \in 1..NumPos(tree) |-> tree[p][2]]) = [k \in 1..(NumPos(tree) - 1) |-> k]

\* no entry without neighbours precedes an entry with neighbours
LeavesLast(tree) ==
    \A p, q \in 0..(NumPos(tree) - 1) :
        (p < q /\ Len(NeighAt(tree, p)) = 0) => Len(NeighAt(tree, q)) = 0

\* a level-order tree of depth n: exactly the positions fewer than n hops
\* from the root have neighbours
WellFormed(tree, n) ==
    /\ LevelOrder(tree)
    /\ \A p \in 0..(NumPos(tree) - 1) :
          (Len(NeighAt(tree, p)) > 0) <=> (Hops(tree, p) < n)

\* cumulative fanout at the depth of p: n_samples[0] * ... * n_samples[depth - 1]
Fanout(tree, ns, p) == Prod(SubSeq(ns, 1, Hops(tree, p)))

\* a backward or self reference (hence any cycle), a missing position, or
\* indices that are not increasing along the lists
Malformed(tree) ==
    \/ \E p \in 0..(NumPos(tree) - 1) : \E v \in Range(NeighAt(tree, p)) :
          v <= p \/ v >= NumPos(tree)
    \/ ~Ascending(tree)

-----------------------------------------------------------------------------
(* The inputs: node types, feature sizes, trees and configurations *)

Types == {"A", "B"}

TypeOrder == <<"A", "B">>

InputDims == [t \in Types |-> IF t = "A" THEN 3 ELSE 5]

\* Child counts of the trees with N positions serialised level by level:
\* position p has c[p+1] neighbours and every position but 0 has a parent.
ChildCounts(N) ==
    {c \in [1..N -> 0..MaxRel] :
        /\ SumTo(c, N) = N - 1
        /\ \A p \in 1..(N - 1) : SumTo(c, p) >= p}

LevelShape(c) ==
    [p \in 1..Len(c) |-> <<"A", [k \in 1..c[p] |-> SumTo(c, p - 1) + k]>>]

\* Node types: one type, types alternating along the positions, or types
\* alternating along the depth.
TypePats == {"same", "alt", "depth"}

Typed(t, pat) ==
    [p \in 1..Len(t) |->
        <<IF \/ pat = "alt" /\ (p - 1) % 2 = 1
             \/ pat = "depth" /\ Hops(t, p - 1) % 2 = 1
          THEN "B" ELSE "A",
          t[p][2]>>]

LevelTrees ==
    {Typed(LevelShape(c), pat) :
        c \in UNION {ChildCounts(N) : N \in 1..MaxPos}, pat \in TypePats}

\* Every neighbour list reversed.
ReverseLists(t) == [p \in 1..Len(t) |-> <<t[p][1], Reverse(t[p][2])>>]

\* Positions a and b exchanged, the indices that name them renamed.
SwapPositions(t, a, b) ==
    LET ren(v) == IF v = a THEN b ELSE IF v = b THEN a ELSE v
    IN  [p \in 1..Len(t) |->
            LET e == t[ren(p - 1) + 1]
            IN  <<e[1], [k \in 1..Len(e[2]) |-> ren(e[2][k])]>>]

\* The k-th neighbour index of position a replaced by v.
Retarget(t, a, k, v) == [t EXCEPT ![a + 1] = <<@[1], [@[2] EXCEPT ![k] = v]>>]

Variants(t) ==
    {t, ReverseLists(t)}
    \cup {SwapPositions(t, a, b) : a \in 1..(Len(t) - 1), b \in 1..(Len(t) - 1)}
    \cup UNION {{Retarget(t, a, k, v) : k \in 1..Len(t[a + 1][2]), v \in 0..Len(t)} :
                    a \in 0..(Len(t) - 1)}

TreeInputs == UNION {Variants(t) : t \in LevelTrees}

\* The n_samples lists of length n: <<2, 3, ...>> and <<n, ..., 2, 1>>
SampleLists(n) == {[k \in 1..n |-> k + 1], [k \in 1..n |-> n - k + 1]}

\* An element of output_dims: a number (kind "int", d the number at every
\* node type) or a dict from node type to number (kind "dict").
IntDim(v) == [kind |-> "int", d |-> [t \in Types |-> v]]

DictDim(a, b) == [kind |-> "dict", d |-> [t \in Types |-> IF t = "A" THEN a ELSE b]]

DimSpecs == {IntDim(4), IntDim(3), DictDim(4, 2)}

EvenDims(n) == [k \in 1..n |-> IntDim(2 * (n - k + 1))]

-----------------------------------------------------------------------------
(* HinSAGE.__init__ *)

\* Variant of eval_neigh_tree_per_layer: the filter compares with <=.
RECURSIVE eval_neigh_tree_le(_)
eval_neigh_tree_le(input_tree) ==
    LET reduced == SelectSeq(input_tree, LAMBDA li : Last(li[2]) <= Len(input_tree))
    IN  IF Len(reduced) = 0 THEN [err |-> "", trees |-> <<input_tree>>]
        ELSE IF Len(reduced) = Len(input_tree)
             THEN [err |-> "RecursionError", trees |-> <<>>]
             ELSE LET r == eval_neigh_tree_le(reduced)
                  IN  IF r.err # "" THEN r
                      ELSE [err |-> "", trees |-> <<input_tree>> \o r.trees]

\* Variant: the filter keeps the entries it should drop.
RECURSIVE eval_neigh_tree_ge(_)
eval_neigh_tree_ge(input_tree) ==
    LET reduced == SelectSeq(input_tree, LAMBDA li : Last(li[2]) >= Len(input_tree))
    IN  IF Len(reduced) = 0 THEN [err |-> "", trees |-> <<input_tree>>]
        ELSE IF Len(reduced) = Len(input_tree)
             THEN [err |-> "RecursionError", trees |-> <<>>]
             ELSE LET r == eval_neigh_tree_ge(reduced)
                  IN  IF r.err # "" THEN r
                      ELSE [err |-> "", trees |-> <<input_tree>> \o r.trees]

\* Variant: the filter tests the first neighbour index instead of the last.
RECURSIVE eval_neigh_tree_first(_)
eval_neigh_tree_first(input_tree) ==
    LET reduced == SelectSeq(input_tree, LAMBDA li : li[2][1] < Len(input_tree))
    IN  IF Len(reduced) = 0 THEN [err |-> "", trees |-> <<input_tree>>]
        ELSE IF Len(reduced) = Len(input_tree)
             THEN [err |-> "RecursionError", trees |-> <<>>]
             ELSE LET r == eval_neigh_tree_first(reduced)
                  IN  IF r.err # "" THEN r
                      ELSE [err |-> "", trees |-> <<input_tree>> \o r.trees]

\* Variant: the recursion stops when the filter drops nothing.
RECURSIVE eval_neigh_tree_guarded(_)
eval_neigh_tree_guarded(input_tree) ==
    LET reduced == SelectSeq(input_tree, LAMBDA li : Last(li[2]) < Len(input_tree))
    IN  IF Len(reduced) = 0 \/ Len(reduced) = Len(input_tree)
        THEN [err |-> "", trees |-> <<input_tree>>]
        ELSE LET r == eval_neigh_tree_guarded(reduced)
             IN  [err |-> "", trees |-> <<input_tree>> \o r.trees]

\* lines 191-208.  A call whose filter keeps every entry calls itself with
\* the same argument and so never returns: Python raises RecursionError.
RECURSIVE eval_neigh_tree_per_layer(_)
eval_neigh_tree_per_layer(input_tree) ==
    LET reduced == SelectSeq(input_tree, LAMBDA li : Last(li[2]) < Len(input_tree))
    IN  IF Len(reduced) = 0 THEN [err |-> "", trees |-> <<input_tree>>]
        ELSE IF Len(reduced) = Len(input_tree)
             THEN [err |-> "RecursionError", trees |-> <<>>]
             ELSE LET r == eval_neigh_tree_per_layer(reduced)
                  IN  IF r.err # "" THEN r
                      ELSE [err |-> "", trees |-> <<input_tree>> \o r.trees]

\* lines 242-244
NonLeaves(tree) == SelectSeq(tree, LAMBDA li : Len(li[2]) > 0)

\* Variant of DepthList: n_layers in place of n_layers + 1.
DepthList_OffByOne(tree, trees, n) ==
    LET lists == <<tree>> \o trees
    IN  [i \in 1..Len(tree) |->
            n - Cardinality({k \in 1..Len(lists) : i - 1 < Len(lists[k])})]

\* lines 247-252; element p + 1 is depth[p]
DepthList(tree, trees, n) ==
    LET lists == <<tree>> \o trees
    IN  [i \in 1..Len(tree) |->
            n + 1 - Cardinality({k \in 1..Len(lists) : i - 1 < Len(lists[k])})]

\* lines 255-260; element l + 1 is self.dims[l].  A number is broadcast over
\* the node types of list l of [subtree_schema] + neigh_trees.
DimsOk(tree, trees, outdims) ==
    \A l \in 1..Len(outdims) : outdims[l].kind = "int" => l <= Len(trees)

DimsList(tree, trees, outdims) ==
    LET lists == <<tree>> \o trees
    IN  <<InputDims>> \o
        [l \in 1..Len(outdims) |->
            IF outdims[l].kind = "dict" THEN outdims[l].d
            ELSE [t \in {lists[l + 1][k][1] : k \in 1..Len(lists[l + 1])} |->
                      outdims[l].d[t]]]

\* Python list indexing: a negative index counts from the end.
PyIndexOk(s, i) == -Len(s) <= i /\ i < Len(s)

PyIndex(s, i) == IF i < 0 THEN s[Len(s) + i + 1] ELSE s[i + 1]

\* MeanHinAggregator.__init__, lines 60-70
NewAggregator(output_dim, has_bias, act) ==
    [output_dim |-> output_dim, half_output_dim |-> output_dim \div 2,
     has_bias |-> has_bias, act |-> act, built |-> FALSE, nr |-> 0,
     w_neigh |-> <<>>, w_self |-> <<>>, bias |-> <<>>, builds |-> 0]

\* lines 263-273: the (layer, node type) pairs in creation order
AggPairs(dms, n) ==
    Flatten([l \in 1..n |->
        LET keys == SelectSeq(TypeOrder, LAMBDA t : t \in DOMAIN dms[l + 1])
        IN  [k \in 1..Len(keys) |-> <<l, keys[k]>>]])

\* Variant of AggsOk: the assertion of line 61 left out.
AggsOk_NoAssert(dms, n) == TRUE

\* line 61, for every aggregator the constructor creates
AggsOk(dms, n) ==
    LET pairs == AggPairs(dms, n)
    IN  \A k \in 1..Len(pairs) : dms[pairs[k][1] + 1][pairs[k][2]] % 2 = 0

AggStore(dms, n, has_bias) ==
    LET pairs == AggPairs(dms, n)
    IN  [k \in 1..Len(pairs) |->
            NewAggregator(dms[pairs[k][1] + 1][pairs[k][2]], has_bias,
                          IF pairs[k][1] - 1 < n - 1 THEN "relu" ELSE "linear")]

AggTable(dms, n) ==
    LET pairs == AggPairs(dms, n)
    IN  [l \in 1..n |->
            [t \in DOMAIN dms[l + 1] |->
                CHOOSE k \in 1..Len(pairs) : pairs[k] = <<l, t>>]]

\* lines 276-291: the first exception the nested comprehension raises
ReshapeErrAt(tree, trees, ns, dep, dms, l, i, k) ==
    LET ni == trees[l][i][2][k]
    IN  IF ~PyIndexOk(ns, dep[i]) THEN "IndexError"
        ELSE IF ~(0 <= ni /\ ni < Len(tree)) THEN "IndexError"
        ELSE IF tree[ni + 1][1] \notin DOMAIN dms[l] THEN "KeyError"
        ELSE ""

ReshapeErr(tree, trees, ns, dep, dms, n) ==
    LET perLayer(l) ==
            IF l > Len(trees) THEN <<"IndexError">>
            ELSE Flatten([i \in 1..Len(trees[l]) |->
                    [k \in 1..Len(trees[l][i][2]) |->
                        ReshapeErrAt(tree, trees, ns, dep, dms, l, i, k)]])
        all == SelectSeq(Flatten([l \in 1..n |-> perLayer(l)]), LAMBDA e : e # "")
    IN  IF Len(all) = 0 THEN "" ELSE all[1]

\* The Reshape target (-1, n_samples[depth[i]], dims[layer][type]) as <<fanout, dim>>
ReshapeTarget(tree, ns, dep, dms, l, i, ni) ==
    <<PyIndex(ns, dep[i]), dms[l][tree[ni + 1][1]]>>

ReshapeTable(tree, trees, ns, dep, dms, n) ==
    [l \in 1..n |->
        [i \in 1..Len(trees[l]) |->
            [k \in 1..Len(trees[l][i][2]) |->
                ReshapeTarget(tree, ns, dep, dms, l, i, trees[l][i][2][k])]]]

\* HinSAGE.__init__, lines 210-293: the attributes assigned and the
\* exception raised, if any.
Construction(tree, ns, od, has_bias) ==
    LET n    == Len(ns)
        none == [err |-> "", derived |-> {}, n_layers |-> 0, neigh_trees |-> <<>>,
                 depth |-> <<>>, dims |-> <<>>, aggs |-> <<>>, store |-> <<>>,
                 neigh_reshape |-> <<>>]
        ev   == eval_neigh_tree_per_layer(NonLeaves(tree))
        s1   == [none EXCEPT !.derived = {"n_layers"}, !.n_layers = n]
        dep  == DepthList(tree, ev.trees, n)
        s2   == [s1 EXCEPT !.derived = @ \cup {"neigh_trees"},
                           !.neigh_trees = ev.trees, !.depth = dep]
        dms  == DimsList(tree, ev.trees, od)
        s3   == [s2 EXCEPT !.derived = @ \cup {"dims"}, !.dims = dms]
        s4   == [s3 EXCEPT !.derived = @ \cup {"aggs"}, !.aggs = AggTable(dms, n),
                           !.store = AggStore(dms, n, has_bias)]
        rerr == ReshapeErr(tree, ev.trees, ns, dep, dms, n)
    IN  IF Len(ns) # Len(od) THEN [none EXCEPT !.err = "AssertionError"]
        ELSE IF ev.err # "" THEN [s1 EXCEPT !.err = ev.err]
        ELSE IF ~DimsOk(tree, ev.trees, od) THEN [s2 EXCEPT !.err = "IndexError"]
        ELSE IF ~AggsOk(dms, n) THEN [s3 EXCEPT !.err = "AssertionError"]
        ELSE IF rerr # "" THEN [s4 EXCEPT !.err = rerr]
        ELSE [s4 EXCEPT !.derived = @ \cup {"neigh_reshape"},
                        !.neigh_reshape =
                            ReshapeTable(tree, ev.trees, ns, dep, dms, n)]

-----------------------------------------------------------------------------
(* HinSAGE._input_shapes *)

\* A dict overwritten by update(): the entries of g win.
DictUpdate(f, g) ==
    [k \in DOMAIN f \cup DOMAIN g |-> IF k \in DOMAIN g THEN g[k] ELSE f[k]]

\* Variant of NeighborSize: the sample count of the last hop, not the product.
NeighborSize_LastHop(ns, level) == IF level = 0 THEN 1 ELSE ns[level]

\* line 383: neighbor_sizes[level]
NeighborSize(ns, level) == Prod(SubSeq(ns, 1, level))

\* lines 385-398.  stree[cnode] and neighbor_sizes[level] raise IndexError
\* out of range; the latter bounds the recursion whatever the tree.
RECURSIVE get_shape(_, _, _, _)
RECURSIVE get_shape_adj(_, _, _, _, _)
get_shape(stree, ns, cnode, level) ==
    IF cnode >= Len(stree) THEN [err |-> "IndexError", d |-> <<>>]
    ELSE IF level > Len(ns) THEN [err |-> "IndexError", d |-> <<>>]
    ELSE LET own == [k \in {cnode} |->
                        <<NeighborSize(ns, level), InputDims[stree[cnode + 1][1]]>>]
             sub == get_shape_adj(stree, ns, stree[cnode + 1][2], level + 1, <<>>)
         IN  IF sub.err # "" THEN sub
             ELSE [err |-> "", d |-> DictUpdate(own, sub.d)]

\* the dict comprehension of lines 392-396 over the neighbours adj, in order
get_shape_adj(stree, ns, adj, level, acc) ==
    IF Len(adj) = 0 THEN [err |-> "", d |-> acc]
    ELSE LET r == get_shape(stree, ns, adj[1], level)
         IN  IF r.err # "" THEN r
             ELSE get_shape_adj(stree, ns, Tail(adj), level, DictUpdate(acc, r.d))

\* lines 375-401
input_shapes(stree, ns) ==
    LET r == get_shape(stree, ns, 0, 0)
    IN  IF r.err # "" THEN [called |-> TRUE, err |-> r.err, val |-> <<>>]
        ELSE IF \E ii \in 0..(Len(stree) - 1) : ii \notin DOMAIN r.d
             THEN [called |-> TRUE, err |-> "KeyError", val |-> <<>>]
             ELSE [called |-> TRUE, err |-> "",
                   val |-> [p \in 1..Len(stree) |-> r.d[p - 1]]]

-----------------------------------------------------------------------------
(* MeanHinAggregator *)

\* lines 82-121
build(a, input_shape) ==
    LET nr == Len(input_shape) - 1
    IN  [a EXCEPT !.nr = nr,
                  !.w_neigh = [r \in 1..nr |->
                                  <<input_shape[1 + r][4], a.half_output_dim>>],
                  !.w_self = <<input_shape[1][3], a.half_output_dim>>,
                  !.bias = IF a.has_bias THEN <<a.output_dim>> ELSE <<>>,
                  !.built = TRUE,
                  !.builds = @ + 1]

\* lines 134-146: the exception call raises on inputs of these shapes, if any.
\* neigh_means[r] has the shape of x[1 + r] without axis 2.
call_err(a, xs) ==
    LET neigh == Tail(xs)
        bad(r) == IF r > Len(neigh) THEN "IndexError"
                  ELSE IF neigh[r][4] # a.w_neigh[r][1] THEN "ValueError"
                  ELSE ""
        errs == SelectSeq([r \in 1..a.nr |-> bad(r)], LAMBDA e : e # "")
        rows == {neigh[r][2] : r \in 1..a.nr} \ {1}
    IN  IF xs[1][3] # a.w_self[1] THEN "ValueError"
        ELSE IF Len(errs) > 0 THEN errs[1]
        ELSE IF a.nr = 0 THEN "ZeroDivisionError"
        ELSE IF Cardinality(rows) > 1 THEN "ValueError"
        ELSE IF \E r \in 1..a.nr : neigh[r][1] # xs[1][1] THEN "ValueError"
        ELSE IF (IF rows = {} THEN 1 ELSE Max(rows)) # xs[1][2] THEN "ValueError"
        ELSE ""

\* Variant of compute_output_shape: half of the output dimension.
compute_output_shape_half(a, input_shape) ==
    <<input_shape[1][1], input_shape[1][2], a.half_output_dim>>

\* lines 148-158
compute_output_shape(a, input_shape) ==
    <<input_shape[1][1], input_shape[1][2], a.output_dim>>

\* The weights an aggregator holds, and their number of parameters
Weights(a) == <<a.w_neigh, a.w_self, a.bias>>

ParamCount(a) ==
    SumTo([r \in 1..Len(a.w_neigh) |-> Prod(a.w_neigh[r])], Len(a.w_neigh))
    + (IF Len(a.w_self) = 0 THEN 0 ELSE Prod(a.w_self))
    + (IF Len(a.bias) = 0 THEN 0 ELSE Prod(a.bias))

\* Variant of AggApply: build runs on every call.
AggApply_Rebuild(a, xs) ==
    LET a1 == build(a, xs)
    IN  [agg |-> a1, err |-> call_err(a1, xs), out |-> compute_output_shape(a1, xs)]

\* Calling the layer (line 347): weights are created by build on the first
\* call only (line 121 marks the layer built), then call runs.
AggApply(a, xs) ==
    LET a1 == IF a.built THEN a ELSE build(a, xs)
    IN  [agg |-> a1, err |-> call_err(a1, xs), out |-> compute_output_shape(a1, xs)]

-----------------------------------------------------------------------------
(* HinSAGE.__call__ *)

\* keras Reshape((-1, fanout, dim)) applied to a tensor of shape s (batch first)
Reshaped(target, s) ==
    LET total == Prod(Tail(s))
        known == target[1] * target[2]
    IN  IF known <= 0 \/ total % known # 0 THEN [err |-> "ValueError", out |-> <<>>]
        ELSE [err |-> "", out |-> <<s[1], total \div known, target[1], target[2]>>]

\* lines 319-333; l = layer + 1, i = position + 1
neigh_list(xs, l, i, neigh_indices) ==
    LET one(k) ==
            IF ~PyIndexOk(xs, neigh_indices[k]) THEN [err |-> "IndexError", out |-> <<>>]
            ELSE Reshaped(neigh_reshape[l][i][k], PyIndex(xs, neigh_indices[k]))
        all  == [k \in 1..Len(neigh_indices) |-> one(k)]
        errs == SelectSeq(all, LAMBDA r : r.err # "")
    IN  IF Len(errs) > 0 THEN [err |-> errs[1].err, out |-> <<>>]
        ELSE [err |-> "", out |-> [k \in 1..Len(all) |-> all[k].out]]

\* Variant of AggFor: the table of the first layer at every layer.
AggFor_FirstLayer(l, node_type) ==
    IF node_type \in DOMAIN aggs[1] THEN aggs[1][node_type] ELSE aggs[l][node_type]

\* line 347: agg[node_type], agg being self._aggs[layer] (line 363)
AggFor(l, node_type) == aggs[l][node_type]

\* lines 346-360: the comprehension from entry i on, threading the
\* aggregator instances; an exception ends it.
RECURSIVE x_next(_, _, _, _, _, _)
x_next(xs, l, i, st, outs, log) ==
    IF i > Len(neigh_trees[l]) THEN [err |-> "", store |-> st, outs |-> outs, log |-> log]
    ELSE LET node_type == neigh_trees[l][i][1]
             nl == neigh_list(xs, l, i, neigh_trees[l][i][2])
             id == AggFor(l, node_type)
             r  == AggApply(st[id], <<xs[i]>> \o nl.out)
             fail(e, s) == [err |-> e, store |-> s, outs |-> outs, log |-> log]
         IN  IF node_type \notin DOMAIN aggs[l] THEN fail("KeyError", st)
             ELSE IF i > Len(xs) THEN fail("IndexError", st)
             ELSE IF nl.err # "" THEN fail(nl.err, st)
             ELSE IF r.err # ""
                  THEN [err |-> r.err, store |-> [st EXCEPT ![id] = r.agg],
                        outs |-> outs,
                        log |-> log \cup {<<l - 1, i - 1, node_type, id>>}]
             ELSE x_next(xs, l, i + 1, [st EXCEPT ![id] = r.agg],
                         Append(outs, r.out),
                         log \cup {<<l - 1, i - 1, node_type, id>>})

-----------------------------------------------------------------------------
(* The state machine *)

NoShapes == [called |-> FALSE, err |-> "", val |-> <<>>]

NoResult == [bare |-> FALSE, out |-> <<>>]

InitRest ==
    /\ pc = "new" /\ err = "" /\ derived = {} /\ n_layers = 0
    /\ neigh_trees = <<>> /\ depth = <<>> /\ dims = <<>> /\ aggs = <<>>
    /\ store = <<>> /\ neigh_reshape = <<>> /\ shapes = NoShapes
    /\ batch = 0 /\ x = <<>> /\ layer = 0 /\ rounds = 0 /\ used = {}
    /\ result = NoResult /\ calls = 0

\* Any tree with the sample counts and even output dimensions of an
\* n-layer model, or a level-order tree with the sample counts of its depth
\* and any list of output dimensions.
Init ==
    /\ \/ /\ subtree_schema \in TreeInputs
          /\ \E n \in 0..MaxLayers :
                n_samples \in SampleLists(n) /\ output_dims = EvenDims(n)
          /\ bias = FALSE
       \/ /\ subtree_schema \in {t \in LevelTrees : TreeDepth(t) <= MaxLayers}
          /\ n_samples \in SampleLists(TreeDepth(subtree_schema))
          /\ \E m \in 0..MaxLayers : output_dims \in [1..m -> DimSpecs]
          /\ bias \in BOOLEAN
    /\ InitRest

\* HinSAGE(...), lines 164-293
Construct ==
    /\ pc = "new"
    /\ LET c == Construction(subtree_schema, n_samples, output_dims, bias)
       IN  /\ pc' = IF c.err = "" THEN "ready" ELSE "failed"
           /\ err' = c.err
           /\ derived' = c.derived
           /\ n_layers' = c.n_layers
           /\ neigh_trees' = c.neigh_trees
           /\ depth' = c.depth
           /\ dims' = c.dims
           /\ aggs' = c.aggs
           /\ store' = c.store
           /\ neigh_reshape' = c.neigh_reshape
    /\ UNCHANGED <<subtree_schema, n_samples, output_dims, bias, shapes, batch,
                   x, layer, rounds, used, result, calls>>

\* _input_shapes(), as default_model calls it (line 419)
InputShapes ==
    /\ pc = "ready"
    /\ ~shapes.called
    /\ shapes' = input_shapes(subtree_schema, n_samples)
    /\ UNCHANGED <<pc, err, subtree_schema, n_samples, output_dims, bias, derived,
                   n_layers, neigh_trees, depth, dims, aggs, store, neigh_reshape,
                   batch, x, layer, rounds, used, result, calls>>

\* __call__ entered with one tensor per position, shaped (b,) + input_shapes()[i]
\* (lines 419-422, 368)
ApplyStart(b) ==
    /\ pc \in {"ready", "done", "call_failed"}
    /\ shapes.called /\ shapes.err = ""
    /\ calls < MaxCalls
    /\ pc' = "composing"
    /\ err' = ""
    /\ batch' = b
    /\ x' = [p \in 1..Len(shapes.val) |-> <<b>> \o shapes.val[p]]
    /\ layer' = 0
    /\ rounds' = 0
    /\ calls' = calls + 1
    /\ result' = NoResult
    /\ UNCHANGED <<subtree_schema, n_samples, output_dims, bias, derived, n_layers,
                   neigh_trees, depth, dims, aggs, store, neigh_reshape, shapes, used>>

\* compose_layers with layer < n_layers: x_next, then the recursive call (line 363)
ApplyRound ==
    /\ pc = "composing"
    /\ layer < n_layers
    /\ LET r == x_next(x, layer + 1, 1, store, <<>>, {})
       IN  /\ store' = r.store
           /\ used' = used \cup r.log
           /\ err' = r.err
           /\ rounds' = rounds + 1
           /\ IF r.err = ""
              THEN pc' = pc /\ x' = r.outs /\ layer' = layer + 1
              ELSE pc' = "call_failed" /\ UNCHANGED <<x, layer>>
    /\ UNCHANGED <<subtree_schema, n_samples, output_dims, bias, derived, n_layers,
                   neigh_trees, depth, dims, aggs, neigh_reshape, shapes, batch,
                   result, calls>>

\* compose_layers at layer = n_layers returns x; lines 369-373 normalise it
ApplyFinish ==
    /\ pc = "composing"
    /\ ~(layer < n_layers)
    /\ pc' = "done"
    /\ result' = [bare |-> Len(x) = 1, out |-> x]
    /\ UNCHANGED <<err, subtree_schema, n_samples, output_dims, bias, derived,
                   n_layers, neigh_trees, depth, dims, aggs, store, neigh_reshape,
                   shapes, batch, x, layer, rounds, used, calls>>

Next ==
    \/ Construct
    \/ InputShapes
    \/ \E b \in 1..MaxBatch : ApplyStart(b)
    \/ ApplyRound
    \/ ApplyFinish

Spec == Init /\ [][Next]_vars

\* same node type, same neighbour types: the entries with neighbours of one
\* type list the same neighbour types in the same order
TypeConsistent(tree) ==
    \A p, q \in 0..(NumPos(tree) - 1) :
        (/\ TypeAt(tree, p) = TypeAt(tree, q)
         /\ Len(NeighAt(tree, p)) > 0 /\ Len(NeighAt(tree, q)) > 0)
        => /\ Len(NeighAt(tree, p)) = Len(NeighAt(tree, q))
           /\ \A k \in 1..Len(NeighAt(tree, p)) :
                 TypeAt(tree, NeighAt(tree, p)[k]) = TypeAt(tree, NeighAt(tree, q)[k])

Constructed == "neigh_reshape" \in derived

LengthsMatch == Len(n_samples) = Len(output_dims)

Positions == 0..(NumPos(subtree_schema) - 1)

-----------------------------------------------------------------------------
(* C1: _input_shapes *)

\* one entry per position, in position order: (cumulative fanout at the
\* depth of the position, input dimension of its node type)
ShapesAsClaimed ==
    /\ shapes.err = ""
    /\ Len(shapes.val) = NumPos(subtree_schema)
    /\ \A p \in Positions :
          shapes.val[p + 1] =
              <<Fanout(subtree_schema, n_samples, p), InputDims[TypeAt(subtree_schema, p)]>>

\* C1 as stated: for every rooted tree and every (here non-empty) n_samples
\* list, input_shapes() returns the claimed list.
C1_AsStated ==
    (shapes.called /\ RootedTree(subtree_schema) /\ Len(n_samples) > 0)
    => ShapesAsClaimed

\* C1, amended: for every rooted tree (entry 0 the root, every position
\* reachable) and every n_samples list with at least as many entries as the
\* tree is deep, input_shapes() returns one entry per position, in position
\* order, entry i being (n_samples[0] * ... * n_samples[depth(i) - 1],
\* input_dims[type of i]).
C1_InputShapes ==
    (/\ shapes.called
     /\ RootedTree(subtree_schema)
     /\ TreeDepth(subtree_schema) <= Len(n_samples)) => ShapesAsClaimed

\* a tree of depth two or more that is not in level order, its shapes returned
C1_Witness ==
    /\ shapes.called /\ shapes.err = ""
    /\ RootedTree(subtree_schema)
    /\ ~LevelOrder(subtree_schema)
    /\ TreeDepth(subtree_schema) >= 2

-----------------------------------------------------------------------------
(* C2: number of layer trees *)

-----------------------------------------------------------------------------
(* C3: shapes through __call__ *)

-----------------------------------------------------------------------------
(* C4: the aggregator table *)

AggTableInv ==
    Constructed =>
        /\ Len(aggs) = n_layers
        /\ \A l \in 1..n_layers : DOMAIN aggs[l] = DOMAIN dims[l + 1]
        /\ \A l, m \in 1..n_layers : \A t \in DOMAIN aggs[l], u \in DOMAIN aggs[m] :
              aggs[l][t] = aggs[m][u] => (l = m /\ t = u)
        /\ Len(store) =
              SumTo([l \in 1..n_layers |-> Cardinality(DOMAIN aggs[l])], n_layers)
        /\ \A u \in used :
              /\ u[3] = neigh_trees[u[1] + 1][u[2] + 1][1]
              /\ u[4] = aggs[u[1] + 1][u[3]]

\* C4: one aggregator instance per (layer, node type), created at
\* construction; no step of a call adds, removes or replaces an entry of the
\* table; every position of layer L and type t is processed by table[L][t].
C4_AggregatorTable ==
    /\ []AggTableInv
    /\ [][Constructed => (aggs' = aggs /\ Len(store') = Len(store))]_vars

C4_Witness ==
    /\ pc = "done"
    /\ \E u, v \in used : u[1] = v[1] /\ u[2] # v[2] /\ u[3] = v[3] /\ u[4] = v[4]
    /\ \E u, v \in used : u[1] # v[1] /\ u[3] = v[3] /\ u[4] # v[4]

-----------------------------------------------------------------------------
(* C5: configuration errors *)

\* an odd output dimension for an aggregator the constructor must create:
\* a dict entry, or a number broadcast over a non-empty layer tree
OddRequired ==
    \E l \in 1..Len(output_dims) :
        \/ output_dims[l].kind = "dict" /\ \E t \in Types : output_dims[l].d[t] % 2 = 1
        \/ /\ output_dims[l].kind = "int" /\ output_dims[l].d["A"] % 2 = 1
           /\ l <= Len(neigh_trees) /\ Len(neigh_trees[l]) > 0

\* C5: mismatched list lengths fail before anything is derived; an odd
\* output dimension of an aggregator to create fails at construction as
\* well; a failed construction is never used.
C5_ConfigErrors ==
    /\ (pc # "new" /\ ~LengthsMatch) =>
          /\ pc = "failed" /\ err = "AssertionError"
          /\ derived = {} /\ neigh_trees = <<>> /\ dims = <<>>
          /\ aggs = <<>> /\ store = <<>> /\ neigh_reshape = <<>>
    /\ (pc # "new" /\ LengthsMatch /\ OddRequired) => (pc = "failed" /\ ~Constructed)
    /\ pc = "failed" =>
          (~Constructed /\ ~shapes.called /\ calls = 0 /\ x = <<>> /\ result = NoResult)

C5_Witness ==
    /\ pc = "failed" /\ err = "AssertionError"
    /\ LengthsMatch /\ OddRequired /\ "dims" \in derived

-----------------------------------------------------------------------------
(* C6: weights are allocated once *)

TotalParams == SumTo([id \in 1..Len(store) |-> ParamCount(store[id])], Len(store))

\* C6: every aggregator builds its weights at most once, on its first use;
\* a built aggregator's weights never change, and from the second call on
\* no aggregator changes at all.
C6_WeightsOnce ==
    /\ [](\A id \in 1..Len(store) :
            /\ store[id].builds <= 1
            /\ store[id].built <=> store[id].builds = 1
            /\ (\E u \in used : u[4] = id) => store[id].built)
    /\ [][\A id \in 1..Len(store) : store[id].built =>
            /\ Len(store') = Len(store)
            /\ Weights(store'[id]) = Weights(store[id])
            /\ store'[id].builds = store[id].builds]_vars
    /\ [][calls >= 2 => (store' = store /\ TotalParams' = TotalParams)]_vars

C6_Witness ==
    /\ pc = "done" /\ calls >= 2 /\ bias
    /\ \E id \in 1..Len(store) : store[id].built /\ Len(store[id].w_neigh) >= 2
    /\ TotalParams > 0

-----------------------------------------------------------------------------
(* C7: layer trees as prefixes *)

PrefixTrees ==
    \A L \in 1..Len(neigh_trees) : \A i \in 1..Len(neigh_trees[L]) :
        neigh_trees[L][i] = subtree_schema[i]

\* C7 as stated: in a rooted tree whose parents precede their children
\* every layer tree is a prefix of the tree.
C7_AsStated ==
    (/\ pc # "new" /\ LengthsMatch
     /\ RootedTree(subtree_schema) /\ ParentFirst(subtree_schema))
    => ("neigh_trees" \in derived /\ PrefixTrees)

\* C7, amended: for every tree serialised in level order (parent precedes
\* children, the neighbour lists read in entry order name positions 1, 2,
\* ..., N - 1) in which no entry without neighbours precedes an entry with
\* neighbours, every layer tree is a prefix of the tree: its i-th entry is
\* the entry of position i, whose embedding x[i] is the self input.
C7_PrefixTrees ==
    (/\ pc # "new" /\ LengthsMatch
     /\ ParentFirst(subtree_schema)
     /\ LevelOrder(subtree_schema)
     /\ LeavesLast(subtree_schema))
    => /\ "neigh_trees" \in derived
       /\ PrefixTrees
       /\ \A u \in used : u[3] = TypeAt(subtree_schema, u[2])

C7_Witness ==
    /\ pc = "done"
    /\ ParentFirst(subtree_schema) /\ LevelOrder(subtree_schema)
    /\ LeavesLast(subtree_schema)
    /\ Len(neigh_trees) >= 2 /\ Len(neigh_trees[2]) >= 2
    /\ PrefixTrees

-----------------------------------------------------------------------------
(* C8: neighbour indices in range *)

\* number of tensors layer L (1-based) receives
InputLen(L) == IF L = 1 THEN NumPos(subtree_schema) ELSE Len(neigh_trees[L - 1])

AllIndicesInRange ==
    \A L \in 1..n_layers : \A i \in 1..Len(neigh_trees[L]) :
        \A v \in Range(neigh_trees[L][i][2]) : 0 <= v /\ v < InputLen(L)

\* C8 as stated: in a rooted tree whose parents precede their children every
\* neighbour index of every layer tree is a position of the list the layer
\* receives.
C8_AsStated ==
    (Constructed /\ RootedTree(subtree_schema) /\ ParentFirst(subtree_schema))
    => AllIndicesInRange

\* C8, amended: the same for trees in which parent precedes children and
\* every neighbour list is ascending (its last index is its largest).
C8_IndicesInRange ==
    (Constructed /\ ParentFirst(subtree_schema) /\ Ascending(subtree_schema))
    => AllIndicesInRange

C8_Witness ==
    /\ Constructed
    /\ ParentFirst(subtree_schema) /\ Ascending(subtree_schema)
    /\ n_layers >= 2
    /\ \E i \in 1..Len(neigh_trees[2]) : Len(neigh_trees[2][i][2]) >= 2
    /\ AllIndicesInRange

-----------------------------------------------------------------------------
(* C9: malformed trees *)

ConfigOk ==
    /\ LengthsMatch
    /\ \A l \in 1..Len(output_dims) : \A t \in Types : output_dims[l].d[t] % 2 = 0

\* a non-empty set of entries with neighbours, each with its last neighbour
\* index below the size of the set
ClosedSet(tree) ==
    \E C \in SUBSET {p \in 0..(NumPos(tree) - 1) : Len(NeighAt(tree, p)) > 0} :
        /\ C # {}
        /\ \A p \in C : Last(NeighAt(tree, p)) < Cardinality(C)

\* C9 as stated: with a malformed tree the layer-tree derivation terminates
\* and construction completes.
C9_AsStated ==
    (pc # "new" /\ ConfigOk /\ Malformed(subtree_schema))
    => ("neigh_trees" \in derived /\ pc # "failed")

\* C9, amended: construction does not validate the tree and a malformed
\* tree never raises an assertion; the layer-tree derivation fails to
\* terminate (RecursionError) exactly when some non-empty set of entries
\* with neighbours has every member's last neighbour index below the size of
\* the set, and construction otherwise either completes or stops at an
\* IndexError or KeyError of a later lookup.
C9_Malformed ==
    (pc # "new" /\ ConfigOk /\ Malformed(subtree_schema))
    => /\ pc = "failed" => err \in {"RecursionError", "IndexError", "KeyError"}
       /\ (pc = "failed" /\ err = "RecursionError") <=> ClosedSet(subtree_schema)
       /\ "neigh_trees" \in derived <=> ~ClosedSet(subtree_schema)

C9_Witness ==
    /\ pc = "done" /\ ConfigOk /\ Malformed(subtree_schema)
    /\ ~ParentFirst(subtree_schema)

-----------------------------------------------------------------------------
(* C10: depth of a position *)

=============================================================================
